---- MODULE Spec2Model ----
(***************************************************************************)
(* Model of src/main.py: the ignore-file parser (load_gitignore), the      *)
(* admission predicate (is_ignored), the depth function (get_depth), the   *)
(* tree walk (generate_file_tree_and_content) and the repository loop      *)
(* (handle_repos).                                                         *)
(*                                                                         *)
(* A Python str is a sequence of one-character strings, so that prefix,    *)
(* suffix, split and lower-casing are computed character by character.     *)
(***************************************************************************)
EXTENDS Integers, Sequences, FiniteSets, TLC

VARIABLES
    gitignore,        \* the root's .gitignore: [exists, readable, lines]
    probe,            \* the one file of the tree whose place and attributes vary
    pc,               \* position of the running function
    ignored_patterns, \* generate_file_tree_and_content: ignored_patterns
    stack,            \* os.walk: directories still to be yielded, next first
    visited,          \* directories os.walk has listed and yielded
    repo_data,        \* generate_file_tree_and_content: repo_data
    file_path,        \* is_ignored: its argument file_path
    result,           \* is_ignored / load_gitignore: the returned value
    repos,            \* handle_repos: the repositories, in processing order
    idx,              \* handle_repos: index of the next repository
    sent              \* handle_repos: repositories whose message reached the LLM

vars == <<gitignore, probe, pc, ignored_patterns, stack, visited, repo_data,
          file_path, result, repos, idx, sent>>

-----------------------------------------------------------------------------
(* Bounds of the model *)

\* deepest directory level of the modelled trees (root = level 0)
MaxTreeDepth == 3
\* most lines of a .gitignore in the tree walk
MaxIgnoreLines == 1
\* most lines of a .gitignore handed to load_gitignore alone
MaxRawLines == 3
\* most repositories under the roots of handle_repos
MaxRepos == 3

-----------------------------------------------------------------------------
(* Program constants *)

MAX_LINES == 1000
MAX_BYTES == 100 * 1024
MAX_DEPTH == 2

SEP == "/"

EXCLUDED_EXTENSIONS ==
    { <<".", "p", "y", "c">>, <<".", "t", "a", "r">>, <<".", "7", "z">>,
      <<".", "z", "i", "p">>, <<".", "m", "p", "4">>, <<".", "m", "p", "3">>,
      <<".", "p", "d", "f">>, <<".", "j", "p", "g">>, <<".", "p", "n", "g">>,
      <<"t", "a", "r", ".", "l", "z">> }

EXCLUDED_FILES ==
    { <<"l", "i", "c", "e", "n", "s", "e">>,
      <<"l", "i", "c", "e", "n", "s", "e", ".", "m", "d">>,
      <<"l", "i", "c", "e", "n", "s", "e", ".", "t", "x", "t">>,
      <<".", "g", "i", "t", "i", "g", "n", "o", "r", "e">> }

GIT == <<".", "g", "i", "t">>

-----------------------------------------------------------------------------
(* Python str operations *)

UpperLetters == <<"A", "B", "C", "D", "E", "F", "G", "H", "I", "J", "K", "L", "M",
                  "N", "O", "P", "Q", "R", "S", "T", "U", "V", "W", "X", "Y", "Z">>
LowerLetters == <<"a", "b", "c", "d", "e", "f", "g", "h", "i", "j", "k", "l", "m",
                  "n", "o", "p", "q", "r", "s", "t", "u", "v", "w", "x", "y", "z">>

LowerChar(c) ==
    IF \E i \in 1..26 : UpperLetters[i] = c
    THEN LowerLetters[CHOOSE i \in 1..26 : UpperLetters[i] = c]
    ELSE c

UpperChar(c) ==
    IF \E i \in 1..26 : LowerLetters[i] = c
    THEN UpperLetters[CHOOSE i \in 1..26 : LowerLetters[i] = c]
    ELSE c

\* str.lower()
Lower(s) == [i \in 1..Len(s) |-> LowerChar(s[i])]

\* str.upper()
Upper(s) == [i \in 1..Len(s) |-> UpperChar(s[i])]

\* str.startswith(p)
StartsWith(s, p) == Len(p) <= Len(s) /\ SubSeq(s, 1, Len(p)) = p

\* str.endswith(p)
EndsWith(s, p) == Len(p) <= Len(s) /\ SubSeq(s, Len(s) - Len(p) + 1, Len(s)) = p

\* str.split(os.sep): the empty string splits into one empty segment
RECURSIVE Split(_)
Split(s) ==
    IF \E i \in 1..Len(s) : s[i] = SEP
    THEN LET i == CHOOSE j \in 1..Len(s) : s[j] = SEP /\ \A k \in 1..(j - 1) : s[k] # SEP
         IN  <<SubSeq(s, 1, i - 1)>> \o Split(SubSeq(s, i + 1, Len(s)))
    ELSE <<s>>

\* os.path.join(a, b) for a relative b: no separator after an empty a
Join(a, b) == IF a = <<>> THEN b ELSE a \o <<SEP>> \o b

\* os.path.basename
Basename(s) == LET parts == Split(s) IN parts[Len(parts)]

IsSpace(c) == c \in {" ", "\t", "\n", "\r"}

\* str.strip()
RECURSIVE LStrip(_)
LStrip(s) == IF s # <<>> /\ IsSpace(Head(s)) THEN LStrip(Tail(s)) ELSE s
RECURSIVE RStrip(_)
RStrip(s) == IF s # <<>> /\ IsSpace(s[Len(s)]) THEN RStrip(SubSeq(s, 1, Len(s) - 1)) ELSE s
Strip(s) == RStrip(LStrip(s))

Range(f) == {f[i] : i \in DOMAIN f}

-----------------------------------------------------------------------------
(* load_gitignore *)

\* the comprehension of line 27: strip() decides blank lines and the returned
\* text, startswith("#") is asked of the line as read
RECURSIVE ParseLines(_)
ParseLines(lines) ==
    IF lines = <<>> THEN <<>>
    ELSE LET line == Head(lines)
         IN  (IF Strip(line) # <<>> /\ ~StartsWith(line, <<"#">>)
              THEN <<Strip(line)>> ELSE <<>>) \o ParseLines(Tail(lines))

\* [raised, value]: open() or the iteration raises on an unreadable file
load_gitignore(g) ==
    IF g.exists
    THEN IF g.readable
         THEN [raised |-> FALSE, value |-> ParseLines(g.lines)]
         ELSE [raised |-> TRUE, value |-> <<>>]
    ELSE [raised |-> FALSE, value |-> <<>>]

-----------------------------------------------------------------------------
(* is_ignored, get_depth *)

ExtensionExcluded(path) ==
    \E ext \in EXCLUDED_EXTENSIONS : EndsWith(path, Lower(ext))

FileNameExcluded(path) == Lower(Basename(path)) \in EXCLUDED_FILES


\* faulty variant: a pattern matches whole segments only
PatternMatches_segment_only(path, pattern) == pattern \in Range(Split(path))

PatternMatches(path, pattern) ==
    StartsWith(path, pattern) \/ pattern \in Range(Split(path))

is_ignored(path, patterns) ==
    IF ExtensionExcluded(path) THEN TRUE
    ELSE IF FileNameExcluded(path) THEN TRUE
    ELSE \E i \in 1..Len(patterns) : PatternMatches(path, patterns[i])


\* faulty variant: the depth counted as the number of separators
get_depth_separators(relative_path) == Len(Split(relative_path)) - 1

get_depth(relative_path) == Len(Split(relative_path))

-----------------------------------------------------------------------------
(* The trees the walk is run on *)

A == <<"a">>
VENDOR == <<"v", "e", "n", "d", "o", "r">>

\* the names scandir lists, in order: in repo_path, and in every directory below
\* it that is above the deepest level
RootListing == <<GIT, A, VENDOR>>
SubListing == <<GIT, A>>

\* os.walk: the dirs of a yielded directory
ListDirs(root) ==
    IF root = <<>> THEN RootListing
    ELSE IF Len(root) < MaxTreeDepth THEN SubListing
    ELSE <<>>

\* a directory is the sequence of its segments below the repository; <<>> is repo_path
AllDirs ==
    {d \in UNION {[1..n -> Range(RootListing)] : n \in 0..MaxTreeDepth} :
        \A i \in 2..Len(d) : d[i] \in Range(SubListing)}

\* every directory holds this file (README.md of 5 lines and 200 bytes)
README == <<"R", "E", "A", "D", "M", "E", ".", "m", "d">>
Background(dir) == [dir |-> dir, name |-> README, size |-> 200, nlines |-> 5, err |-> "none"]

F_TXT == <<"f", ".", "t", "x", "t">>
LICENSE == <<"L", "I", "C", "E", "N", "S", "E">>

\* err: which call raises for this file (os.path.getsize, or open/readlines)
Probes == [dir : AllDirs, name : {F_TXT, LICENSE},
           size : {MAX_BYTES, MAX_BYTES + 1},
           nlines : {MAX_LINES, MAX_LINES + 1},
           err : {"none", "getsize", "read"}]

\* os.walk: the files of a yielded directory; fs is the sequence of probe files present
FilesIn(root, fs) == SelectSeq(fs, LAMBDA f : f.dir = root) \o <<Background(root)>>

\* os.path.relpath(dir, repo_path)
RECURSIVE RelPath(_)
RelPath(dir) ==
    IF dir = <<>> THEN <<".">>
    ELSE IF Len(dir) = 1 THEN dir[1]
    ELSE RelPath(SubSeq(dir, 1, Len(dir) - 1)) \o <<SEP>> \o dir[Len(dir)]

\* lines of .gitignore files
LINE_VENDOR_SLASH == <<"v", "e", "n", "d", "o", "r", "/", "\n">>
LINE_VENDOR == <<"v", "e", "n", "d", "o", "r", "\n">>
LINE_A == <<"a", "\n">>
LINE_COMMENT == <<"#", "c", "\n">>
LINE_INDENTED_COMMENT == <<" ", "#", "c", "\n">>
LINE_BLANK == <<"\n">>
LINE_SPACES == <<" ", " ", "\n">>
LINE_PADDED == <<" ", "a", " ", "\n">>
LINE_NO_NEWLINE == <<"f">>

WalkLines == {LINE_VENDOR_SLASH, LINE_VENDOR, LINE_A}

RawLines == {LINE_VENDOR_SLASH, LINE_COMMENT, LINE_INDENTED_COMMENT, LINE_BLANK,
             LINE_SPACES, LINE_PADDED, LINE_NO_NEWLINE}

SeqsUpTo(S, n) == UNION {[1..k -> S] : k \in 0..n}

GitignoreFiles(S, n) ==
    {[exists |-> FALSE, readable |-> FALSE, lines |-> <<>>],
     [exists |-> TRUE, readable |-> FALSE, lines |-> <<>>]}
    \cup {[exists |-> TRUE, readable |-> TRUE, lines |-> l] : l \in SeqsUpTo(S, n)}

-----------------------------------------------------------------------------
(* generate_file_tree_and_content *)


\* faulty variant: .git stays in dirs
RemoveGit_kept(dirs) == dirs

\* if ".git" in dirs: dirs.remove(".git")
RemoveGit(dirs) ==
    IF GIT \in Range(dirs)
    THEN LET i == CHOOSE j \in 1..Len(dirs) : dirs[j] = GIT /\ \A k \in 1..(j - 1) : dirs[k] # GIT
         IN  SubSeq(dirs, 1, i - 1) \o SubSeq(dirs, i + 1, Len(dirs))
    ELSE dirs


\* faulty variant: the ceiling compared with > instead of >=
DepthExceeded_strict(relative_path) == get_depth(relative_path) > MAX_DEPTH

\* if get_depth(relative_path) >= MAX_DEPTH: continue
DepthExceeded(relative_path) == get_depth(relative_path) >= MAX_DEPTH

\* dirs[:] = [d for d in dirs if not is_ignored(relpath(join(root, d), repo_path), ...)]
KeptDirs(relative_path, dirs, patterns) ==
    SelectSeq(dirs, LAMBDA d : ~is_ignored(Join(relative_path, d), patterns))


\* faulty variant: the size ceiling compared with >= instead of >
TooLarge_inclusive(size) == size >= MAX_BYTES

TooLarge(size) == size > MAX_BYTES

TooManyLines(nlines) == nlines > MAX_LINES


\* faulty variant: the exception of a file leaves the loop
OnFileError_propagates(data) == [data |-> data, raised |-> TRUE]

\* except Exception as e: logging.error(...); the loop goes on
OnFileError(data) == [data |-> data, raised |-> FALSE]

\* the body of `for file_name in files`; the content read is stood for by its line count
ProcessFile(f, relative_path, data, patterns) ==
    LET relative_file_path == Join(relative_path, f.name)
    IN  IF is_ignored(relative_file_path, patterns) THEN [data |-> data, raised |-> FALSE]
        ELSE IF f.err = "getsize" THEN OnFileError(data)
        ELSE IF TooLarge(f.size) THEN [data |-> data, raised |-> FALSE]
        ELSE IF f.err = "read" THEN OnFileError(data)
        ELSE IF TooManyLines(f.nlines) THEN [data |-> data, raised |-> FALSE]
        ELSE [data |-> (relative_file_path :> f.nlines) @@ data, raised |-> FALSE]

RECURSIVE ProcessFiles(_, _, _, _)
ProcessFiles(files, relative_path, data, patterns) ==
    IF files = <<>> THEN [data |-> data, raised |-> FALSE]
    ELSE LET r == ProcessFile(Head(files), relative_path, data, patterns)
         IN  IF r.raised THEN r
             ELSE ProcessFiles(Tail(files), relative_path, r.data, patterns)

Children(root, dirs) == [i \in 1..Len(dirs) |-> root \o <<dirs[i]>>]

\* one iteration of `for root, dirs, files in os.walk(repo_path)`: os.walk descends
\* afterwards into what the body left in dirs
VisitDir(root, rest, data, fs, patterns) ==
    LET dirs1 == RemoveGit(ListDirs(root))
        rel0 == RelPath(root)
        relative_path == IF rel0 = <<".">> THEN <<>> ELSE rel0
    IN  IF DepthExceeded(relative_path)
        THEN [stack |-> Children(root, dirs1) \o rest, data |-> data, raised |-> FALSE]
        ELSE LET dirs2 == KeptDirs(relative_path, dirs1, patterns)
                 r == ProcessFiles(FilesIn(root, fs), relative_path, data, patterns)
             IN  [stack |-> Children(root, dirs2) \o rest, data |-> r.data,
                  raised |-> r.raised]

\* the whole walk as a function of the tree: the returned repo_data
RECURSIVE WalkFrom(_, _, _, _)
WalkFrom(stk, data, fs, patterns) ==
    IF stk = <<>> THEN data
    ELSE LET v == VisitDir(Head(stk), Tail(stk), data, fs, patterns)
         IN  IF v.raised THEN data ELSE WalkFrom(v.stack, v.data, fs, patterns)

NoData == [k \in {} |-> 0]

Idle == /\ file_path = <<>>
        /\ result = <<>>
        /\ repos = <<>>
        /\ idx = 0
        /\ sent = {}

Init ==
    /\ gitignore \in GitignoreFiles(WalkLines, MaxIgnoreLines)
    /\ probe \in Probes
    /\ pc = "start"
    /\ ignored_patterns = <<>>
    /\ stack = <<>>
    /\ visited = {}
    /\ repo_data = NoData
    /\ Idle

\* ignored_patterns = load_gitignore(repo_path); repo_data = {}; os.walk starts
Start ==
    /\ pc = "start"
    /\ LET g == load_gitignore(gitignore)
       IN  IF g.raised
           THEN /\ pc' = "raised"
                /\ UNCHANGED <<ignored_patterns, stack>>
           ELSE /\ pc' = "walk"
                /\ ignored_patterns' = g.value
                /\ stack' = << <<>> >>
    /\ UNCHANGED <<gitignore, probe, visited, repo_data, file_path, result, repos, idx, sent>>

\* os.walk yields the next directory and the loop body runs on it
Visit ==
    /\ pc = "walk"
    /\ stack # <<>>
    /\ LET v == VisitDir(Head(stack), Tail(stack), repo_data, <<probe>>, ignored_patterns)
       IN  /\ visited' = visited \cup {Head(stack)}
           /\ repo_data' = v.data
           /\ stack' = v.stack
           /\ pc' = IF v.raised THEN "raised" ELSE "walk"
    /\ UNCHANGED <<gitignore, probe, ignored_patterns, file_path, result, repos, idx, sent>>

\* os.walk is exhausted: return repo_data
Return ==
    /\ pc = "walk"
    /\ stack = <<>>
    /\ pc' = "done"
    /\ UNCHANGED <<gitignore, probe, ignored_patterns, stack, visited, repo_data,
                   file_path, result, repos, idx, sent>>

Next == Start \/ Visit \/ Return

Spec == Init /\ [][Next]_vars

-----------------------------------------------------------------------------
(* is_ignored called on its own *)

\* every deny-listed extension as written, in capitals, and with one capital
Capitalised(ext) == [i \in 1..Len(ext) |-> IF i = 2 THEN UpperChar(ext[i]) ELSE ext[i]]
SuffixCasings == UNION {{ext, Upper(ext), Capitalised(ext)} : ext \in EXCLUDED_EXTENSIONS}

TestPaths ==
    {stem \o suffix : stem \in {<<"x">>, <<"a", SEP, "x">>},
                      suffix \in SuffixCasings \cup {<<>>, <<".", "t", "x", "t">>}}
    \cup {LICENSE, <<"a", SEP, "L", "i", "c", "e", "n", "s", "e", ".", "m", "d">>}

TestPatterns == {<<>>, << <<"a">> >>, << <<"x">> >>}

InitIsIgnored ==
    /\ file_path \in TestPaths
    /\ ignored_patterns \in TestPatterns
    /\ pc = "call"
    /\ result = <<>>
    /\ gitignore = [exists |-> FALSE, readable |-> FALSE, lines |-> <<>>]
    /\ probe = Background(<<>>)
    /\ stack = <<>>
    /\ visited = {}
    /\ repo_data = NoData
    /\ repos = <<>>
    /\ idx = 0
    /\ sent = {}

CallIsIgnored ==
    /\ pc = "call"
    /\ result' = is_ignored(file_path, ignored_patterns)
    /\ pc' = "returned"
    /\ UNCHANGED <<gitignore, probe, ignored_patterns, stack, visited, repo_data,
                   file_path, repos, idx, sent>>

SpecIsIgnored == InitIsIgnored /\ [][CallIsIgnored]_vars

-----------------------------------------------------------------------------
(* load_gitignore called on its own *)

InitGitignore ==
    /\ gitignore \in GitignoreFiles(RawLines, MaxRawLines)
    /\ pc = "call"
    /\ result = <<>>
    /\ file_path = <<>>
    /\ ignored_patterns = <<>>
    /\ probe = Background(<<>>)
    /\ stack = <<>>
    /\ visited = {}
    /\ repo_data = NoData
    /\ repos = <<>>
    /\ idx = 0
    /\ sent = {}

CallLoadGitignore ==
    /\ pc = "call"
    /\ LET g == load_gitignore(gitignore)
       IN  /\ pc' = IF g.raised THEN "raised" ELSE "returned"
           /\ result' = g.value
    /\ UNCHANGED <<gitignore, probe, ignored_patterns, stack, visited, repo_data,
                   file_path, repos, idx, sent>>

SpecGitignore == InitGitignore /\ [][CallLoadGitignore]_vars

-----------------------------------------------------------------------------
(* handle_repos *)

\* a repository: its .gitignore, and whether chat() answers or raises for its message
RepoKinds ==
    [gitignore : GitignoreFiles({}, 0), llm : {"ok", "error"}]

\* generate_file_tree_and_content(repo_path) raises what load_gitignore raises:
\* the file loop catches its own errors and os.walk ignores listing errors
CollectRaises(repo) == load_gitignore(repo.gitignore).raised

\* send_message_to_llm: the response, or the error-tagged string of the except branch
send_message_to_llm(repo) == IF repo.llm = "ok" THEN "response" ELSE "Error"

InitRepos ==
    /\ repos \in SeqsUpTo(RepoKinds, MaxRepos)
    /\ idx = 1
    /\ sent = {}
    /\ result = <<>>
    /\ pc = "loop"
    /\ file_path = <<>>
    /\ gitignore = [exists |-> FALSE, readable |-> FALSE, lines |-> <<>>]
    /\ ignored_patterns = <<>>
    /\ probe = Background(<<>>)
    /\ stack = <<>>
    /\ visited = {}
    /\ repo_data = NoData

\* the body of `for repo in repos`: collect, build the message, send, print;
\* an exception of the collection leaves handle_repos
ProcessRepo ==
    /\ pc = "loop"
    /\ idx <= Len(repos)
    /\ IF CollectRaises(repos[idx])
       THEN /\ pc' = "raised"
            /\ UNCHANGED <<idx, sent, result>>
       ELSE /\ sent' = sent \cup {idx}
            /\ result' = Append(result, send_message_to_llm(repos[idx]))
            /\ idx' = idx + 1
            /\ pc' = "loop"
    /\ UNCHANGED <<gitignore, probe, ignored_patterns, stack, visited, repo_data,
                   file_path, repos>>

\* the loops are exhausted: handle_repos returns
FinishRepos ==
    /\ pc = "loop"
    /\ idx > Len(repos)
    /\ pc' = "done"
    /\ UNCHANGED <<gitignore, probe, ignored_patterns, stack, visited, repo_data,
                   file_path, result, repos, idx, sent>>

NextRepos == ProcessRepo \/ FinishRepos

SpecRepos == InitRepos /\ [][NextRepos]_vars

-----------------------------------------------------------------------------
(* Properties of the tree walk (Spec) *)

Keys == DOMAIN repo_data

\* the relative path of a file of the tree, from its directory and name
PathOf(f) == RelPath(f.dir \o <<f.name>>)

\* the directory segments of a key
DirSegments(k) == LET parts == Split(k) IN {parts[i] : i \in 1..(Len(parts) - 1)}

GitignoreReadable == ~gitignore.exists \/ gitignore.readable

Finished == pc \in {"done", "raised"}

\* C1, as claimed: with MAX_DEPTH = 2 a file d/f one level below the root is never
\* a key of the Snapshot.
C1_NoFileOneLevelDeeper == \A k \in Keys : Len(Split(k)) # 2

\* C1, amended: with MAX_DEPTH = 2 the files kept are those directly inside the
\* root or directly inside a visited immediate subdirectory: when the walk has
\* returned, the README.md of a directory d is a key exactly when d is the root or
\* an immediate subdirectory, d was visited and the path is not ignored; so d/f can
\* be a key and only files two or more levels deeper never are.
C1_KeptWithinOneSubdirectory ==
    pc = "done" =>
        \A d \in AllDirs :
            PathOf(Background(d)) \in Keys
                <=> /\ Len(d) <= 1
                    /\ d \in visited
                    /\ ~is_ignored(PathOf(Background(d)), ignored_patterns)

C1_Witness ==
    /\ pc = "done"
    /\ PathOf(Background(<<A>>)) \in Keys
    /\ PathOf(Background(<<>>)) \in Keys
    /\ <<A, A>> \in visited
    /\ PathOf(Background(<<A, A>>)) \notin Keys

VendorLineListed == gitignore.exists /\ gitignore.readable /\ LINE_VENDOR_SLASH \in Range(gitignore.lines)

UnderVendor(k) == Len(Split(k)) > 1 /\ Split(k)[1] = VENDOR

\* C3, as claimed: with the line 'vendor/' in the ignore file the walk prunes the
\* directory vendor, so that it is never visited, and no file under it is a key.
C3_VendorPruned ==
    VendorLineListed =>
        /\ <<VENDOR>> \notin visited
        /\ \A k \in Keys : ~UnderVendor(k)

\* C3, amended: with the line 'vendor/' in the ignore file no file under vendor is
\* a key of the Snapshot; the pattern 'vendor/' does not remove the directory
\* 'vendor' from the descent list (with that line alone vendor is visited), the
\* files are rejected one by one by the admission check.
C3_VendorFilesRejected ==
    /\ VendorLineListed => \A k \in Keys : ~UnderVendor(k)
    /\ (pc = "done" /\ gitignore.exists /\ gitignore.lines = <<LINE_VENDOR_SLASH>>)
           => <<VENDOR>> \in visited

C3_Witness ==
    /\ pc = "done"
    /\ gitignore.lines = <<LINE_VENDOR_SLASH>>
    /\ <<VENDOR>> \in visited
    /\ probe.dir = <<VENDOR>> /\ probe.name = F_TXT /\ probe.err = "none"
    /\ probe.size = MAX_BYTES /\ probe.nlines = MAX_LINES
    /\ PathOf(probe) \notin Keys

\* the error of the probe file is raised: the walk reaches the failing call
ProbeFails ==
    /\ probe.err # "none"
    /\ Len(probe.dir) < MAX_DEPTH
    /\ ~is_ignored(PathOf(probe), ignored_patterns)
    /\ probe.err = "read" => probe.size <= MAX_BYTES

\* C5: when getting the size of a file or reading it raises, the walk still runs to
\* its end and returns the Snapshot of the same tree without that file: the file is
\* no key and every other entry is as it would be.
C5_FileErrorSkipsOnlyThatFile ==
    (Finished /\ GitignoreReadable /\ probe.err # "none") =>
        /\ pc = "done"
        /\ PathOf(probe) \notin Keys
        /\ repo_data = WalkFrom(<< <<>> >>, NoData, <<>>, ignored_patterns)

C5_Witness ==
    /\ pc = "done"
    /\ ProbeFails
    /\ probe.dir = <<>>
    /\ probe.dir \in visited
    /\ PathOf(Background(<<>>)) \in Keys
    /\ PathOf(Background(<<A>>)) \in Keys

C7_NoKeyOfThreeSegments == \A k \in Keys : Len(Split(k)) < 3

C7_Witness ==
    /\ pc = "done"
    /\ probe.dir = <<A, A>>
    /\ probe.dir \in visited
    /\ probe.err = "none" /\ probe.size = MAX_BYTES /\ probe.nlines = MAX_LINES
    /\ ~is_ignored(PathOf(probe), ignored_patterns)
    /\ PathOf(probe) \notin Keys

\* C8: a directory named .git is never visited by the walk, at any level and
\* whatever the depth of its parent, and no key has .git as a directory segment.
C8_GitNeverTraversed ==
    /\ \A d \in visited : GIT \notin Range(d)
    /\ \A k \in Keys : GIT \notin DirSegments(k)

C8_Witness ==
    /\ pc = "done"
    /\ <<A, A>> \in visited
    /\ GIT \in Range(ListDirs(<<A, A>>))
    /\ DepthExceeded(RelPath(<<A, A>>))
    /\ probe.dir = <<GIT>> /\ probe.name = F_TXT /\ probe.err = "none"
    /\ probe.size = MAX_BYTES /\ probe.nlines = MAX_LINES
    /\ ~is_ignored(PathOf(probe), ignored_patterns)

\* C10, as claimed: below a visited directory whose depth is >= MAX_DEPTH the walk
\* does not descend: no subdirectory of it is ever visited.
C10_NoDescentBelowCeiling ==
    \A d \in visited :
        DepthExceeded(RelPath(d)) =>
            \A e \in visited : ~(Len(e) > Len(d) /\ SubSeq(e, 1, Len(d)) = d)

-----------------------------------------------------------------------------
(* Properties of is_ignored (SpecIsIgnored) *)

\* C2: a path whose suffix is a deny-listed extension under any letter casing is
\* ignored, whatever the patterns.
C2_ExtensionMatchIgnoresCase ==
    (pc = "returned"
     /\ \E ext \in EXCLUDED_EXTENSIONS : EndsWith(Lower(file_path), Lower(ext)))
        => result = TRUE

-----------------------------------------------------------------------------
(* Properties of load_gitignore (SpecGitignore) *)

IsComment(line) == LStrip(line) # <<>> /\ Head(LStrip(line)) = "#"

RECURSIVE PatternsOf(_)
PatternsOf(lines) ==
    IF lines = <<>> THEN <<>>
    ELSE (IF Strip(Head(lines)) = <<>> \/ IsComment(Head(lines))
          THEN <<>> ELSE <<Strip(Head(lines))>>) \o PatternsOf(Tail(lines))

\* C9: load_gitignore returns, in file order, the trimmed text of every line that
\* is neither blank nor a comment, a comment preceded by whitespace included, so
\* that no pattern returned is empty or begins with '#'; and nothing for an absent
\* file.
C9_CommentsAndBlanksDropped ==
    pc = "returned" =>
        /\ result = (IF gitignore.exists THEN PatternsOf(gitignore.lines) ELSE <<>>)
        /\ \A i \in 1..Len(result) : result[i] # <<>> /\ Head(result[i]) # "#"

-----------------------------------------------------------------------------
(* Properties of handle_repos (SpecRepos) *)

RepoFails(i) == CollectRaises(repos[i]) \/ repos[i].llm = "error"

\* C4: the failure of one repository, in reading it or in the remote call, is
\* isolated: when handle_repos has ended, every later repository that can itself
\* be read has been collected and sent to the sink.
C4_FailuresIsolated ==
    Finished =>
        \A i, j \in 1..Len(repos) :
            (i < j /\ RepoFails(i) /\ ~CollectRaises(repos[j])) => j \in sent

====
